---- MODULE Spec2Model ----
(***************************************************************************)
(* Model of src/data_utils.py: the table helpers of the deconvolution      *)
(* workflow (readers, normalisation, gene intersection, gene-set           *)
(* derivation, variance selection, correlation reporting).                 *)
(*                                                                         *)
(* A data frame is a record [index, columns, data]: index is the sequence  *)
(* of row labels, columns the sequence of column labels and data the       *)
(* sequence of rows (each a sequence of cells).  Gene identifiers are      *)
(* numbered 1..NGenes in their sort order.  Cells are floats, modelled     *)
(* exactly as pairs <<n, d>>: d > 0 is the rational n/d, <<1,0>> is +inf,  *)
(* <<-1,0>> is -inf and <<0,0>> is NaN (the rounding error of binary       *)
(* floating point is not modelled).  Generated input cells are the whole   *)
(* numbers 0..MaxVal.                                                      *)
(*                                                                         *)
(* The caller's objects live in heap (a sequence of data frames addressed  *)
(* by position); a function body works on a private extension of the heap  *)
(* and what is left at the caller's positions after the call is what the   *)
(* caller sees.                                                            *)
(***************************************************************************)
EXTENDS Integers, Sequences, FiniteSets, TLC

VARIABLES heap, call, ret, fs, log

vars == <<heap, call, ret, fs, log>>

(* ------------------------------ bounds --------------------------------- *)

\* cell values of generated tables are 0..MaxVal
MaxVal == 2
\* gene identifiers are 1..NGenes
NGenes == 3
\* generated expression tables of the intersection have at most MaxRows rows
MaxRows == 3
\* sig_size arguments are 0..MaxSize
MaxSize == 3
\* the cell_types argument of the reporting helpers has at most MaxCellTypes entries
MaxCellTypes == 2

Genes == 1..NGenes
Vals == 0..MaxVal

(* --------------------------- sequences --------------------------------- *)

RECURSIVE ConcatAll(_)
ConcatAll(ss) == IF ss = <<>> THEN <<>> ELSE Head(ss) \o ConcatAll(Tail(ss))

Range(s) == {s[i] : i \in 1..Len(s)}

RECURSIVE SumSeq(_)
SumSeq(s) == IF s = <<>> THEN 0 ELSE Head(s) + SumSeq(Tail(s))

\* positions of s (ascending) whose element satisfies P
PositionsWhere(s, P(_)) ==
    LET RECURSIVE go(_)
        go(i) == IF i > Len(s) THEN <<>>
                 ELSE (IF P(s[i]) THEN <<i>> ELSE <<>>) \o go(i + 1)
    IN go(1)

\* insert position p into the position list ps, ordered by key k (ascending),
\* after every position with an equal key
RECURSIVE InsertAsc(_, _, _)
InsertAsc(ps, p, k) ==
    IF ps = <<>> THEN <<p>>
    ELSE IF k[p] < k[Head(ps)] THEN <<p>> \o ps
    ELSE <<Head(ps)>> \o InsertAsc(Tail(ps), p, k)

\* the positions of k in ascending order of key
ArgSortAsc(k) ==
    LET RECURSIVE go(_)
        go(i) == IF i = 0 THEN <<>> ELSE InsertAsc(go(i - 1), i, k)
    IN go(Len(k))


IsSortedAsc(s) == \A i \in 1..(Len(s) - 1) : s[i] <= s[i + 1]

Count(s, x) == Cardinality({i \in 1..Len(s) : s[i] = x})

NoDuplicates(s) == \A i, j \in 1..Len(s) : s[i] = s[j] => i = j

\* all sequences over S of length lo..hi
SeqsOf(S, lo, hi) == UNION {[1..n -> S] : n \in lo..hi}

InjectiveSeqs(S, lo, hi) == {s \in SeqsOf(S, lo, hi) : NoDuplicates(s)}

(* ----------------------------- floats ---------------------------------- *)

Sign(x) == IF x > 0 THEN 1 ELSE IF x < 0 THEN -1 ELSE 0
AbsInt(x) == IF x < 0 THEN -x ELSE x

NaN == <<0, 0>>
PosInf == <<1, 0>>
NegInf == <<-1, 0>>
FInt(x) == <<x, 1>>
IsFinite(a) == a[2] > 0
IsNaN(a) == a = NaN

\* a division that guards the zero divisor: x / 0 is NaN
FDiv_guarded(a, b) ==
    IF b[1] = 0 THEN NaN
    ELSE IF b[1] < 0 THEN <<-(a[1] * b[2]), -(a[2] * b[1])>>
    ELSE <<a[1] * b[2], a[2] * b[1]>>

\* a / b for finite a, b: division by zero gives +-inf, 0/0 gives NaN, no error
FDiv(a, b) ==
    IF b[1] = 0 THEN <<Sign(a[1]), 0>>
    ELSE IF b[1] < 0 THEN <<-(a[1] * b[2]), -(a[2] * b[1])>>
    ELSE <<a[1] * b[2], a[2] * b[1]>>

FMul(a, b) == <<a[1] * b[1], a[2] * b[2]>>
FAdd(a, b) == <<a[1] * b[2] + b[1] * a[2], a[2] * b[2]>>
FSub(a, b) == <<a[1] * b[2] - b[1] * a[2], a[2] * b[2]>>

\* a < b: every comparison with NaN is false
FLt(a, b) ==
    IF IsNaN(a) \/ IsNaN(b) THEN FALSE
    ELSE IF a = PosInf \/ b = NegInf THEN FALSE
    ELSE IF a = NegInf \/ b = PosInf THEN TRUE
    ELSE a[1] * b[2] < b[1] * a[2]

FGt(a, b) == FLt(b, a)

FEq(a, b) ==
    IF IsNaN(a) \/ IsNaN(b) THEN FALSE
    ELSE IF ~IsFinite(a) \/ ~IsFinite(b) THEN a = b
    ELSE a[1] * b[2] = b[1] * a[2]

(* ---------------------------- results ---------------------------------- *)

\* how a call ends: it returns a value or raises an exception
Ok(v) == [kind |-> "ok", value |-> v]
Raise(e) == [kind |-> "error", error |-> e]
NoResult == [kind |-> "none"]

(* --------------------------- data frames ------------------------------- *)

DataFrame(index, columns, data) ==
    [index |-> index, columns |-> columns, data |-> data]

NRows(df) == Len(df.index)
NCols(df) == Len(df.columns)

\* rows of df at the positions ps, in that order
TakeRows(df, ps) ==
    DataFrame([i \in 1..Len(ps) |-> df.index[ps[i]]], df.columns,
              [i \in 1..Len(ps) |-> df.data[ps[i]]])

\* the positions a list of labels selects in a (possibly non-unique) label
\* sequence: for each requested label, every position carrying it
LocIndexer(labels, key) ==
    ConcatAll([i \in 1..Len(key) |->
                 PositionsWhere([j \in 1..Len(labels) |-> j],
                                LAMBDA j : labels[j] = key[i])])

ColPos(df, c) == CHOOSE j \in 1..NCols(df) : df.columns[j] = c
Column(df, c) == [i \in 1..NRows(df) |-> df.data[i][ColPos(df, c)]]

Transpose(df) ==
    DataFrame(df.columns, df.index,
              [j \in 1..NCols(df) |-> [i \in 1..NRows(df) |-> df.data[i][j]]])

\* a sort_index that returns the frame in its given order
sort_index_unsorted(df) == df

\* df.sort_index(): a new frame with the rows in ascending label order
sort_index(df) == TakeRows(df, ArgSortAsc(df.index))

(* ----------------------- keep_common_genes ----------------------------- *)

\* index of pd.merge(left, right, how='inner', left_index=True,
\* right_index=True): one entry per pair of rows with the same label
merge_inner_index(left, right) ==
    ConcatAll([i \in 1..NRows(left) |->
                 [k \in 1..Count(right.index, left.index[i]) |-> left.index[i]]])

loc(df, key) == TakeRows(df, LocIndexer(df.index, key))

keep_common_genes(h, rna_df, sig_df) ==
    LET shared_index == merge_inner_index(h[rna_df], h[sig_df])
        rna_df_red == sort_index(loc(h[rna_df], shared_index))
        sig_df_red == sort_index(loc(h[sig_df], shared_index))
    IN [heap |-> h, ret |-> Ok(<<rna_df_red, sig_df_red>>)]

(* ------------------ find_up_down_genes_from_sig ------------------------ *)

\* ascending order of a sequence of finite floats
RECURSIVE InsertFloat(_, _)
InsertFloat(s, x) ==
    IF s = <<>> THEN <<x>>
    ELSE IF FLt(x, Head(s)) THEN <<x>> \o s
    ELSE <<Head(s)>> \o InsertFloat(Tail(s), x)

RECURSIVE SortedFloats(_)
SortedFloats(s) ==
    IF s = <<>> THEN <<>> ELSE InsertFloat(SortedFloats(Tail(s)), Head(s))

\* a median computed as the mean of the row
Median_as_mean(row) ==
    LET RECURSIVE total(_)
        total(r) == IF r = <<>> THEN FInt(0) ELSE FAdd(Head(r), total(Tail(r)))
    IN FDiv(total(row), FInt(Len(row)))

\* the median of a non-empty row: the middle value, or the mean of the two
\* middle values when the row has an even number of cells
Median(row) ==
    LET v == SortedFloats(row)
        n == Len(v)
    IN IF n % 2 = 1 THEN v[(n + 1) \div 2]
       ELSE FDiv(FAdd(v[n \div 2], v[n \div 2 + 1]), FInt(2))

\* df.median(axis=1): one median per row
median_axis1(df) == [i \in 1..NRows(df) |-> Median(df.data[i])]

\* a new object holding frame v: the grown heap and the new object's id
New(h, v) == [heap |-> Append(h, v), id |-> Len(h) + 1]

\* a copy that hands back the object itself
copy_alias(h, df) == [heap |-> h, id |-> df]

\* df.copy(): a new object with the same content
copy(h, df) == New(h, h[df])

\* df[c] = values, in place: replaces column c or appends it
setitem(h, df, c, values) ==
    LET old == h[df]
        new == IF c \in Range(old.columns)
               THEN DataFrame(old.index, old.columns,
                      [i \in 1..NRows(old) |->
                         [j \in 1..NCols(old) |->
                            IF old.columns[j] = c THEN values[i]
                            ELSE old.data[i][j]]])
               ELSE DataFrame(old.index, Append(old.columns, c),
                      [i \in 1..NRows(old) |-> Append(old.data[i], values[i])])
    IN [h EXCEPT ![df] = new]

\* df.divide(series, axis=0): every cell of row i divided by series[i]
divide_axis0(df, series) ==
    DataFrame(df.index, df.columns,
              [i \in 1..NRows(df) |->
                 [j \in 1..NCols(df) |-> FDiv(df.data[i][j], series[i])]])

\* df[mask].index.tolist(): labels of the rows whose cell in column c
\* satisfies P, in row order
LabelsWhere(df, c, P(_)) ==
    LET col == Column(df, c)
        ps == PositionsWhere(col, P)
    IN [i \in 1..Len(ps) |-> df.index[ps[i]]]

find_up_down_genes_from_sig(h, sig_df, down_cutoff, up_cutoff, show_plots) ==
    LET c == copy(h, sig_df)
        h1 == c.heap
        ref == c.id
        h2 == setitem(h1, ref, "reference", median_axis1(h1[ref]))
        sig_ratios == divide_axis0(h2[sig_df], Column(h2[ref], "reference"))
        cats == Range(sig_ratios.columns)
        down == [cell \in cats |->
                   LabelsWhere(sig_ratios, cell, LAMBDA x : FLt(x, down_cutoff))]
        up == [cell \in cats |->
                 LabelsWhere(sig_ratios, cell, LAMBDA x : FGt(x, up_cutoff))]
    IN [heap |-> h2, ret |-> Ok([up |-> up, down |-> down]),
        plots |-> IF show_plots THEN sig_ratios.columns ELSE <<>>]

(* ----------------- get_top_ranked_genes_from_sig ----------------------- *)

RowOrders(n) == {p \in [1..n -> 1..n] : \A i, j \in 1..n : p[i] = p[j] => i = j}

\* the orders of an ascending sort
AscendingOrders(col) ==
    {p \in RowOrders(Len(col)) :
        \A i \in 1..(Len(col) - 1) : ~FLt(col[p[i + 1]], col[p[i]])}

\* the orders sort_values(ascending=False) may return for a column: every
\* arrangement of the rows by non-increasing value (the default sort is not
\* stable, so the order of equal values is not fixed)
DescendingOrders(col) ==
    {p \in RowOrders(Len(col)) :
        \A i \in 1..(Len(col) - 1) : ~FLt(col[p[i]], col[p[i + 1]])}

\* s[:k] for k >= 0
Prefix(s, k) == SubSeq(s, 1, IF k < Len(s) THEN k ELSE Len(s))

\* order gives, for each column, the order its sort returned
get_top_ranked_genes_from_sig(h, sig_df, sig_size, order) ==
    LET df == h[sig_df]
        top_genes == [cell \in Range(df.columns) |->
                        Prefix([i \in 1..NRows(df) |-> df.index[order[cell][i]]],
                               sig_size)]
    IN [heap |-> h, ret |-> Ok(top_genes)]

(* ------------------- variance_threshold_selector ----------------------- *)

RECURSIVE FSum(_)
FSum(s) == IF s = <<>> THEN FInt(0) ELSE FAdd(Head(s), FSum(Tail(s)))

Mean(v) == FDiv(FSum(v), FInt(Len(v)))

\* np.var: the mean of the squared deviations from the mean
Variance(v) ==
    LET mu == Mean(v)
    IN Mean([i \in 1..Len(v) |-> FMul(FSub(v[i], mu), FSub(v[i], mu))])

FMinOf(v) == CHOOSE x \in Range(v) : \A y \in Range(v) : ~FLt(y, x)
FMaxOf(v) == CHOOSE x \in Range(v) : \A y \in Range(v) : ~FLt(x, y)

\* VarianceThreshold.fit: the variance of every feature; with threshold 0
\* the smaller of the variance and the peak-to-peak range
fit_variances(X, threshold) ==
    [j \in 1..NCols(X) |->
        LET v == Column(X, X.columns[j])
            var == Variance([i \in 1..Len(v) |-> X.data[i][j]])
            ptp == FSub(FMaxOf([i \in 1..Len(v) |-> X.data[i][j]]),
                        FMinOf([i \in 1..Len(v) |-> X.data[i][j]]))
        IN IF FEq(threshold, FInt(0)) /\ FLt(ptp, var) THEN ptp ELSE var]

\* a support that keeps the features whose variance reaches the threshold
get_support_inclusive(variances, threshold) ==
    PositionsWhere(variances, LAMBDA x : ~FLt(x, threshold))

\* VarianceThreshold.get_support(indices=True): variance > threshold
get_support(variances, threshold) ==
    PositionsWhere(variances, LAMBDA x : FGt(x, threshold))

\* data[labels]: selection of columns by label
getitem_columns(df, labels) ==
    LET ps == LocIndexer(df.columns, labels)
    IN DataFrame(df.index, [j \in 1..Len(ps) |-> df.columns[ps[j]]],
                 [i \in 1..NRows(df) |-> [j \in 1..Len(ps) |-> df.data[i][ps[j]]]])

variance_threshold_selector(h, data, threshold) ==
    LET dataT == Transpose(h[data])
        variances == fit_variances(dataT, threshold)
        support == get_support(variances, threshold)
        data_red == getitem_columns(dataT,
                        [j \in 1..Len(support) |-> dataT.columns[support[j]]])
    IN [heap |-> h,
        ret |-> IF \A j \in 1..Len(variances) : ~FGt(variances[j], threshold)
                THEN Raise("ValueError")
                ELSE Ok(Transpose(data_red))]

(* -------------------------- df_normalization --------------------------- *)

\* a min-max rescaling that divides by the maximum only
MinMaxColumn_no_shift(v) ==
    LET dmax == FMaxOf(v)
        scale == FDiv(FInt(1), IF dmax[1] = 0 THEN FInt(1) ELSE dmax)
    IN [i \in 1..Len(v) |-> FMul(v[i], scale)]

\* MinMaxScaler on one feature: X * scale_ + min_, where scale_ is
\* 1 / (max - min), a zero range being replaced by 1, and min_ = 0 - min * scale_
MinMaxColumn(v) ==
    LET dmin == FMinOf(v)
        range == FSub(FMaxOf(v), dmin)
        scale == FDiv(FInt(1), IF range[1] = 0 THEN FInt(1) ELSE range)
        min_ == FSub(FInt(0), FMul(dmin, scale))
    IN [i \in 1..Len(v) |-> FAdd(FMul(v[i], scale), min_)]

\* labels 0..n-1 of a frame built from an array
RangeIndex(n) == [i \in 1..n |-> i - 1]

\* MinMaxScaler().fit_transform(df): a new array, every column rescaled
fit_transform(df) ==
    LET cols == [j \in 1..NCols(df) |->
                   MinMaxColumn([i \in 1..NRows(df) |-> df.data[i][j]])]
    IN [i \in 1..NRows(df) |-> [j \in 1..NCols(df) |-> cols[j][i]]]

\* a standard score (x - mean) / std is kept exactly as its sign and its
\* square; a zero standard deviation is replaced by 1
ZScore(x, v) ==
    LET dev == FSub(x, Mean(v))
        var == Variance(v)
        sq == FMul(dev, dev)
    IN [sgn |-> Sign(dev[1]), sq |-> IF var[1] = 0 THEN sq ELSE FDiv(sq, var)]

\* preprocessing.scale(df, axis): a new array
scale(df, axis) ==
    [i \in 1..NRows(df) |-> [j \in 1..NCols(df) |->
        IF axis = 0
        THEN ZScore(df.data[i][j], [k \in 1..NRows(df) |-> df.data[k][j]])
        ELSE ZScore(df.data[i][j], df.data[i])]]

FromArray(a) ==
    DataFrame(RangeIndex(Len(a)), RangeIndex(IF a = <<>> THEN 0 ELSE Len(a[1])), a)

\* obj.columns = columns; obj.index = index, in place
set_labels(h, obj, index, columns) ==
    [h EXCEPT ![obj] = DataFrame(index, columns, h[obj].data)]

df_normalization(h, df, scaling, axis) ==
    IF scaling = "zscore"
    THEN LET n == New(h, FromArray(scale(h[df], axis)))
             h1 == set_labels(n.heap, n.id, h[df].index, h[df].columns)
         IN [heap |-> h1, ret |-> Ok(h1[n.id])]
    ELSE IF scaling = "minmax"
    THEN LET c == IF axis = 1 THEN New(h, Transpose(h[df])) ELSE copy(h, df)
             a == New(c.heap, FromArray(fit_transform(c.heap[c.id])))
             t == IF axis = 1 THEN New(a.heap, Transpose(a.heap[a.id])) ELSE a
             h1 == set_labels(t.heap, t.id, h[df].index, h[df].columns)
         IN [heap |-> h1, ret |-> Ok(h1[t.id])]
    ELSE [heap |-> h, ret |-> Raise("UnboundLocalError")]

(* ---------------------- read_pancancer_rna_file ------------------------ *)

\* str(n) of a small whole number
Str(n) == <<"0", "1", "2", "3", "4", "5", "6", "7", "8", "9">>[n + 1]

IdColumns == {"Hugo_Symbol", "Entrez_Gene_Id"}

\* the identifier column read_csv parses as numbers (Hugo symbols are text)
NumericIdColumns == {"Entrez_Gene_Id"}

\* df[cols] = df[cols].astype(str): numbers in those columns become text,
\* text stays as it is
astype_str(df, cols) ==
    DataFrame(df.index, df.columns,
              [i \in 1..NRows(df) |-> [j \in 1..NCols(df) |->
                  IF df.columns[j] \in cols \cap NumericIdColumns
                  THEN Str(df.data[i][j]) ELSE df.data[i][j]]])

\* df.drop([c], axis=1)
drop_column(df, c) ==
    LET ps == PositionsWhere(df.columns, LAMBDA x : x # c)
    IN DataFrame(df.index, [j \in 1..Len(ps) |-> df.columns[ps[j]]],
                 [i \in 1..NRows(df) |-> [j \in 1..Len(ps) |-> df.data[i][ps[j]]]])

\* df.set_index([c]): column c becomes the row labels
set_index(df, c) ==
    LET d == drop_column(df, c)
    IN DataFrame(Column(df, c), d.columns, d.data)

\* pd.read_csv(path, sep='\t') on the file at the path
read_csv(file) ==
    IF file.kind = "missing" THEN Raise("FileNotFoundError")
    ELSE IF file.kind = "empty" THEN Raise("EmptyDataError")
    ELSE Ok(DataFrame(RangeIndex(Len(file.rows)), file.header, file.rows))

\* a reader that validates the identifier before it touches the file
read_pancancer_rna_file_validating_first(file, identifier) ==
    IF identifier \notin {"hugo", "entrez"}
    THEN [ret |-> Raise("ValueError"), log |-> <<>>]
    ELSE [ret |-> read_csv(file), log |-> <<"read_csv">>]

\* log lists the file accesses made, in order
read_pancancer_rna_file(file, identifier) ==
    LET r == read_csv(file)
        rna == astype_str(r.value, IdColumns)
    IN [log |-> <<"read_csv">>,
        ret |-> IF r.kind = "error" THEN r
                ELSE IF ~(IdColumns \subseteq Range(r.value.columns))
                THEN Raise("KeyError")
                ELSE IF identifier = "hugo"
                THEN Ok(drop_column(set_index(rna, "Hugo_Symbol"), "Entrez_Gene_Id"))
                ELSE IF identifier = "entrez"
                THEN Ok(drop_column(set_index(rna, "Entrez_Gene_Id"), "Hugo_Symbol"))
                ELSE Raise("ValueError")]

(* ----------------------------- corr_table ------------------------------ *)

RECURSIVE GCD(_, _)
GCD(a, b) == IF b = 0 THEN a ELSE GCD(b, a % b)

\* a finite float in lowest terms
Reduced(a) ==
    LET g == GCD(AbsInt(a[1]), a[2])
    IN IF a[2] = 0 \/ g = 0 THEN a ELSE <<a[1] \div g, a[2] \div g>>

RECURSIVE ProductSeq(_)
ProductSeq(s) == IF s = <<>> THEN 1 ELSE Head(s) * ProductSeq(Tail(s))

\* a vector of finite floats as whole numbers over one common denominator
\* (a correlation coefficient does not change when an input is rescaled)
Numerators(x) ==
    LET d == ProductSeq([i \in 1..Len(x) |-> x[i][2]])
    IN [i \in 1..Len(x) |-> x[i][1] * (d \div x[i][2])]

\* n times the sum of the products of the deviations of a and b from their
\* means: n * sum(a*b) - sum(a) * sum(b)
CoMoment(a, b) ==
    Len(a) * SumSeq([i \in 1..Len(a) |-> a[i] * b[i]]) - SumSeq(a) * SumSeq(b)

PearsonOf(cov, vx, vy) ==
    IF vx = 0 \/ vy = 0 THEN [sgn |-> 0, sq |-> NaN]
    ELSE [sgn |-> Sign(cov), sq |-> Reduced(<<cov * cov, vx * vy>>)]

PearsonOfInts(a, b) == PearsonOf(CoMoment(a, b), CoMoment(a, a), CoMoment(b, b))

\* a correlation coefficient r = cov / sqrt(var(x) * var(y)) is kept exactly
\* as its sign and r squared; it is NaN when an input is constant
pearsonr(x, y) == PearsonOfInts(Numerators(x), Numerators(y))

\* rankdata: ties get the average of their ranks
rankdata(x) ==
    [i \in 1..Len(x) |->
        <<2 * Cardinality({k \in 1..Len(x) : FLt(x[k], x[i])})
            + Cardinality({k \in 1..Len(x) : FEq(x[k], x[i])}) + 1, 2>>]

spearmanr(x, y) == pearsonr(rankdata(x), rankdata(y))

\* np.abs of a coefficient
AbsCorr(r) == [sgn |-> AbsInt(r.sgn), sq |-> r.sq]

\* a per-sample entry computed from sample i across the categories
sample_pearson_by_row(h, result, true_freqs, cell, i) ==
    pearsonr(h[result].data[i], h[true_freqs].data[i])

\* the per-sample Pearson entry of sample i, as the loop body computes it
sample_pearson(h, result, true_freqs, cell, i) ==
    pearsonr(Column(h[result], cell), Column(h[true_freqs], cell))

sample_spearman(h, result, true_freqs, cell, i) ==
    spearmanr(Column(h[result], cell), Column(h[true_freqs], cell))

\* results maps each method to its table of estimates.  Every row of a
\* per-category table is assigned in the iteration of its label, every row of
\* a per-sample table in the iteration of its sample, with cell as the
\* per-category loop left it.
corr_table(h, methods, results, cell_types, true_freqs) ==
    LET n == NRows(h[true_freqs])
        cell == cell_types[Len(cell_types)]
        per_cell(corr(_, _)) ==
            DataFrame(cell_types, methods,
                [k \in 1..Len(cell_types) |-> [j \in 1..Len(methods) |->
                    AbsCorr(corr(Column(h[results[methods[j]]], cell_types[k]),
                                 Column(h[true_freqs], cell_types[k])))]])
        p_corr_per_sample ==
            DataFrame(h[true_freqs].index, methods,
                [i \in 1..n |-> [j \in 1..Len(methods) |->
                    AbsCorr(sample_pearson(h, results[methods[j]], true_freqs, cell, i))]])
        s_corr_per_sample ==
            DataFrame(h[true_freqs].index, methods,
                [i \in 1..n |-> [j \in 1..Len(methods) |->
                    AbsCorr(sample_spearman(h, results[methods[j]], true_freqs, cell, i))]])
    IN [heap |-> h,
        ret |-> IF methods # <<>> /\ cell_types # <<>> /\ n < 2
                THEN Raise("ValueError")
                ELSE IF methods # <<>> /\ cell_types = <<>> /\ n > 0
                THEN Raise("UnboundLocalError")
                ELSE Ok(<<per_cell(pearsonr), p_corr_per_sample,
                          per_cell(spearmanr), s_corr_per_sample>>)]

(* ----------------------- predicted_truth_bycell ------------------------ *)

\* the names bound at module level: the functions the module defines (it
\* has no import statement outside a function body)
ModuleGlobals ==
    {"read_pancancer_rna_file", "read_lm22_file", "df_normalization",
     "keep_common_genes", "find_up_down_genes_from_sig",
     "get_top_ranked_genes_from_sig", "variance_threshold_selector",
     "read_ssGSEA_up_genes", "read_custom_geneset", "corr_table",
     "corr_mean_std", "flatten_corr_per_cell", "predicted_truth_bycell"}

\* the names predicted_truth_bycell binds before it builds the long table
Locals_predicted_truth_bycell ==
    {"pd", "method", "method_freqs", "exp_freqs", "cell_types", "df"}

\* the long table built by the loop over the categories
long_table(h, method, method_freqs, exp_freqs, cell_types) ==
    DataFrame(RangeIndex(NRows(h[exp_freqs]) * Len(cell_types)),
              <<method, "Ground truth", "Cell type">>,
              ConcatAll([j \in 1..Len(cell_types) |->
                 [i \in 1..NRows(h[exp_freqs]) |->
                    <<Column(h[method_freqs], cell_types[j])[i],
                      Column(h[exp_freqs], cell_types[j])[i],
                      cell_types[j]>>]]))

predicted_truth_bycell(h, method, method_freqs, exp_freqs, cell_types) ==
    [heap |-> h,
     ret |-> IF NRows(h[method_freqs]) + NRows(h[exp_freqs]) # 2 * NRows(h[exp_freqs])
             THEN Raise("ValueError")
             ELSE IF "np" \notin Locals_predicted_truth_bycell \cup ModuleGlobals
             THEN Raise("NameError")
             ELSE Ok(long_table(h, method, method_freqs, exp_freqs, cell_types))]

(* ------------------------------ calls ---------------------------------- *)

NoCall == [fn |-> "none", args |-> <<>>]
NoFile == [kind |-> "missing"]

\* no call has been made yet: the specifications of a single function make
\* one call on each input (the functions keep no state between calls)
Fresh == call = NoCall

\* what the caller keeps of the heap after a call: its own objects
Caller(h) == SubSeq(h, 1, Len(heap))

Call_keep_common_genes ==
    /\ Len(heap) = 2
    /\ LET r == keep_common_genes(heap, 1, 2)
       IN /\ heap' = Caller(r.heap)
          /\ ret' = r.ret
    /\ call' = [fn |-> "keep_common_genes", args |-> <<>>]
    /\ UNCHANGED <<fs, log>>

DownCutoffs == {<<2, 5>>, <<1, 1>>}
UpCutoffs == {<<1, 1>>, <<2, 1>>, <<4, 1>>}

Call_find_up_down_genes_from_sig ==
    /\ \E down_cutoff \in DownCutoffs, up_cutoff \in UpCutoffs, show_plots \in BOOLEAN :
          LET r == find_up_down_genes_from_sig(heap, 1, down_cutoff, up_cutoff, show_plots)
          IN /\ heap' = Caller(r.heap)
             /\ ret' = r.ret
             /\ log' = r.plots
             /\ call' = [fn |-> "find_up_down_genes_from_sig",
                         args |-> [down_cutoff |-> down_cutoff, up_cutoff |-> up_cutoff,
                                   show_plots |-> show_plots]]
    /\ UNCHANGED fs

Call_get_top_ranked_genes_from_sig ==
    /\ \E sig_size \in 0..MaxSize :
       \E order \in [Range(heap[1].columns) -> RowOrders(NRows(heap[1]))] :
          /\ \A c \in Range(heap[1].columns) :
                order[c] \in DescendingOrders(Column(heap[1], c))
          /\ LET r == get_top_ranked_genes_from_sig(heap, 1, sig_size, order)
             IN /\ heap' = Caller(r.heap)
                /\ ret' = r.ret
          /\ call' = [fn |-> "get_top_ranked_genes_from_sig",
                      args |-> [sig_size |-> sig_size]]
    /\ UNCHANGED <<fs, log>>

Thresholds == {<<0, 1>>, <<1, 4>>, <<1, 2>>, <<1, 1>>}

Call_variance_threshold_selector ==
    /\ \E threshold \in Thresholds :
          LET r == variance_threshold_selector(heap, 1, threshold)
          IN /\ heap' = Caller(r.heap)
             /\ ret' = r.ret
             /\ call' = [fn |-> "variance_threshold_selector",
                         args |-> [threshold |-> threshold]]
    /\ UNCHANGED <<fs, log>>

Scalings == {"zscore", "minmax", "robust"}

Call_df_normalization ==
    /\ \E scaling \in Scalings, axis \in {0, 1} :
          LET r == df_normalization(heap, 1, scaling, axis)
          IN /\ heap' = Caller(r.heap)
             /\ ret' = r.ret
             /\ call' = [fn |-> "df_normalization",
                         args |-> [scaling |-> scaling, axis |-> axis]]
    /\ UNCHANGED <<fs, log>>

Identifiers == {"hugo", "entrez", "ensembl"}

Call_read_pancancer_rna_file ==
    /\ \E identifier \in Identifiers :
          LET r == read_pancancer_rna_file(fs, identifier)
          IN /\ ret' = r.ret
             /\ log' = r.log
             /\ call' = [fn |-> "read_pancancer_rna_file",
                         args |-> [identifier |-> identifier]]
    /\ UNCHANGED <<heap, fs>>

Categories == {"c1", "c2"}
CellTypeLists(k) == SeqsOf(Categories, 0, k)

\* the caller's objects: 1 is the ground truth, 2 and 3 the estimates of
\* methods m1 and m2
Results == [m \in {"m1", "m2"} |-> IF m = "m1" THEN 2 ELSE 3]

Call_corr_table ==
    /\ \E methods \in {<<"m1", "m2">>}, cell_types \in CellTypeLists(MaxCellTypes) :
          LET r == corr_table(heap, methods, Results, cell_types, 1)
          IN /\ heap' = Caller(r.heap)
             /\ ret' = r.ret
             /\ call' = [fn |-> "corr_table",
                         args |-> [methods |-> methods, cell_types |-> cell_types]]
    /\ UNCHANGED <<fs, log>>

Call_predicted_truth_bycell ==
    /\ \E cell_types \in CellTypeLists(MaxCellTypes) :
          LET r == predicted_truth_bycell(heap, "m1", 2, 1, cell_types)
          IN /\ heap' = Caller(r.heap)
             /\ ret' = r.ret
             /\ call' = [fn |-> "predicted_truth_bycell",
                         args |-> [method |-> "m1", cell_types |-> cell_types]]
    /\ UNCHANGED <<fs, log>>

(* ----------------- specification: gene intersection -------------------- *)

\* an expression table whose rows carry their original position
KeyedTable(idx, col, base) ==
    DataFrame(idx, <<col>>, [i \in 1..Len(idx) |-> <<FInt(base + i)>>])

InitIntersect ==
    /\ \E a, b \in SeqsOf(Genes, 0, MaxRows) :
          heap = <<KeyedTable(a, "p1", 10), KeyedTable(b, "c1", 20)>>
    /\ call = NoCall
    /\ ret = NoResult
    /\ fs = NoFile
    /\ log = <<>>

NextIntersect == Fresh /\ Call_keep_common_genes

SpecIntersect == InitIntersect /\ [][NextIntersect]_vars

(* ------------------ specification: signature genes --------------------- *)

ColNames == <<"c1", "c2", "c3">>

\* the tables of a given shape: rows labelled idx, whole-number cells from V
TablesOver(idx, ncols, V) ==
    {DataFrame(idx, SubSeq(ColNames, 1, ncols),
               [i \in 1..Len(idx) |-> [j \in 1..ncols |-> FInt(d[i][j])]]) :
        d \in [1..Len(idx) -> [1..ncols -> V]]}

TablesOf(idx, ncols) == TablesOver(idx, ncols, Vals)

\* shapes <<rows, columns>> of the generated signature tables
SigShapes == {<<1, 1>>, <<1, 2>>, <<1, 3>>, <<2, 1>>, <<2, 2>>, <<2, 3>>, <<3, 1>>}

\* the row orders of a table with one row for each of n genes
GeneOrders(n) == InjectiveSeqs(1..n, n, n)

\* signature tables: one row per gene, in any row order; one-gene tables
\* also with negative values
InitSig ==
    /\ \/ \E sh \in SigShapes : \E idx \in GeneOrders(sh[1]) :
          \E t \in TablesOf(idx, sh[2]) : heap = <<t>>
       \/ \E t \in TablesOver(<<1>>, Len(ColNames), (-MaxVal)..MaxVal) : heap = <<t>>
    /\ call = NoCall
    /\ ret = NoResult
    /\ fs = NoFile
    /\ log = <<>>

NextSig ==
    \/ Fresh /\ Call_find_up_down_genes_from_sig
    \/ Fresh /\ Call_get_top_ranked_genes_from_sig

SpecSig == InitSig /\ [][NextSig]_vars

(* ---------------- specification: variance selection -------------------- *)

\* shapes of the generated expression tables; row labels may repeat
VarShapes == {<<1, 2>>, <<1, 3>>, <<2, 2>>, <<2, 3>>, <<3, 2>>}

InitVar ==
    /\ \E sh \in VarShapes : \E idx \in [1..sh[1] -> 1..2] :
       \E t \in TablesOf(idx, sh[2]) : heap = <<t>>
    /\ call = NoCall
    /\ ret = NoResult
    /\ fs = NoFile
    /\ log = <<>>

NextVar == Fresh /\ Call_variance_threshold_selector

SpecVar == InitVar /\ [][NextVar]_vars

(* ------------------- specification: normalisation ---------------------- *)

NormShapes == {<<1, 1>>, <<1, 2>>, <<2, 1>>, <<2, 2>>, <<2, 3>>, <<3, 2>>}

InitNorm ==
    /\ \E sh \in NormShapes :
       \E t \in TablesOf([i \in 1..sh[1] |-> i], sh[2]) : heap = <<t>>
    /\ call = NoCall
    /\ ret = NoResult
    /\ fs = NoFile
    /\ log = <<>>

NextNorm == Fresh /\ Call_df_normalization

SpecNorm == InitNorm /\ [][NextNorm]_vars

(* ----------------------- specification: reader ------------------------- *)

HugoSymbols == {"A1BG", "TP53"}
EntrezIds == {1, 2}

\* the files at the path: none, an empty one, a tab-separated table with
\* both identifier columns and one sample, and one without the Entrez column
RnaFiles(V) ==
    {[kind |-> "missing"], [kind |-> "empty"]}
    \cup {[kind |-> "table", header |-> <<"Hugo_Symbol", "Entrez_Gene_Id", "s1">>,
           rows |-> [i \in 1..Len(r) |-> <<r[i][1], r[i][2], FInt(r[i][3])>>]] :
            r \in SeqsOf(HugoSymbols \X EntrezIds \X V, 0, 2)}
    \cup {[kind |-> "table", header |-> <<"Hugo_Symbol", "s1">>,
           rows |-> [i \in 1..Len(r) |-> <<r[i][1], FInt(r[i][2])>>]] :
            r \in SeqsOf(HugoSymbols \X V, 0, 1)}

InitRead ==
    /\ fs \in RnaFiles(Vals)
    /\ heap = <<>>
    /\ call = NoCall
    /\ ret = NoResult
    /\ log = <<>>

NextRead == Fresh /\ Call_read_pancancer_rna_file

SpecRead == InitRead /\ [][NextRead]_vars

(* --------------------- specification: reporting ------------------------ *)

\* estimated and true proportions take these values
FreqVals == {0, 1}
Samples == <<1, 2, 3>>


\* the estimates of m2 are those of m1 with the categories exchanged
Exchanged(t) == DataFrame(t.index, t.columns, [i \in 1..NRows(t) |-> <<t.data[i][2], t.data[i][1]>>])

InitReport ==
    /\ \E truth, est \in TablesOver(Samples, Cardinality(Categories), FreqVals) :
          heap = <<truth, est, Exchanged(est)>>
    /\ call = NoCall
    /\ ret = NoResult
    /\ fs = NoFile
    /\ log = <<>>

NextReport ==
    \/ Fresh /\ Call_corr_table
    \/ Fresh /\ Call_predicted_truth_bycell

SpecReport == InitReport /\ [][NextReport]_vars

(* ------------- specification: a session of transforms ----------------- *)

\* the caller holds a signature table (object 1) and an expression table
\* (object 2) and calls the transforms on them in any order, any number of
\* times
SessionShapes == {<<2, 2>>}

Init ==
    /\ \E sh \in SessionShapes : \E idx \in GeneOrders(sh[1]) :
       \E t \in TablesOf(idx, sh[2]) :
          heap = <<t, KeyedTable(<<3, 1, 1>>, "p1", 10)>>
    /\ call = NoCall
    /\ ret = NoResult
    /\ fs = NoFile
    /\ log = <<>>

Next ==
    \/ Call_df_normalization
    \/ Call_keep_common_genes
    \/ Call_find_up_down_genes_from_sig
    \/ Call_get_top_ranked_genes_from_sig
    \/ Call_variance_threshold_selector

Spec == Init /\ [][Next]_vars

(* ======================= properties of the code ======================== *)

Called(fn) == call.fn = fn

\* labels of the rows at the positions in S, in row order
LabelsAt(df, S) ==
    LET RECURSIVE go(_)
        go(i) == IF i > NRows(df) THEN <<>>
                 ELSE (IF i \in S THEN <<df.index[i]>> ELSE <<>>) \o go(i + 1)
    IN go(1)

\* the k-th smallest whole-number cell of a row, by counting
KthSmallest(row, k) ==
    CHOOSE x \in {row[j][1] : j \in 1..Len(row)} :
        /\ Cardinality({j \in 1..Len(row) : row[j][1] < x}) < k
        /\ Cardinality({j \in 1..Len(row) : row[j][1] <= x}) >= k

\* twice the median of a row of whole numbers
TwiceMedian(row) ==
    KthSmallest(row, (Len(row) + 1) \div 2) + KthSmallest(row, Len(row) \div 2 + 1)

(* ------------------------------- C1 ------------------------------------ *)

CommonGenes == Range(heap[1].index) \cap Range(heap[2].index)

\* C1 as stated: for ANY two tables, keep_common_genes returns two tables
\* whose row-label sequences are identical, sorted ascending, and whose label
\* set is the intersection of the inputs' label sets.
C1_AsStated ==
    Called("keep_common_genes") =>
        /\ ret.value[1].index = ret.value[2].index
        /\ IsSortedAsc(ret.value[1].index)
        /\ Range(ret.value[1].index) = CommonGenes

\* C1 (amended): both outputs are sorted ascending by row label and the label
\* set of each is the intersection of the inputs' label sets; the two label
\* sequences are identical exactly when every common label occurs as often in
\* A as in B; in particular, when neither input repeats a row label, they are
\* identical (row i of both outputs is the same gene), hold each common gene
\* once, and every output row is the input's row of that gene.
C1_CommonGenesAligned ==
    Called("keep_common_genes") =>
        /\ \A k \in 1..2 :
              /\ IsSortedAsc(ret.value[k].index)
              /\ Range(ret.value[k].index) = CommonGenes
        /\ ret.value[1].index = ret.value[2].index <=>
              \A g \in CommonGenes : Count(heap[1].index, g) = Count(heap[2].index, g)
        /\ (NoDuplicates(heap[1].index) /\ NoDuplicates(heap[2].index)) =>
              /\ ret.value[1].index = ret.value[2].index
              /\ NoDuplicates(ret.value[1].index)
              /\ \A k \in 1..2 : \A i \in 1..NRows(ret.value[k]) :
                    \E j \in 1..NRows(heap[k]) :
                       /\ heap[k].index[j] = ret.value[k].index[i]
                       /\ heap[k].data[j] = ret.value[k].data[i]

\* two unsorted inputs without repeated labels, sharing two genes and each
\* holding a gene the other lacks
C1_Witness ==
    /\ Called("keep_common_genes")
    /\ heap[1].index = <<3, 1>>
    /\ heap[2].index = <<3, 2, 1>>
    /\ ret.value[1].index = <<1, 3>>
    /\ ret.value[2].index = <<1, 3>>

(* ------------------------------- C2 ------------------------------------ *)

MediansNonZero(df) == \A i \in 1..NRows(df) : TwiceMedian(df.data[i]) # 0

\* value / median < cutoff resp. > cutoff for a whole-number value v, a
\* non-zero median m2 / 2 and a cutoff q[1] / q[2], without division
RatioBelow(v, m2, q) ==
    IF m2 > 0 THEN 2 * v * q[2] < q[1] * m2 ELSE 2 * v * q[2] > q[1] * m2
RatioAbove(v, m2, q) ==
    IF m2 > 0 THEN 2 * v * q[2] > q[1] * m2 ELSE 2 * v * q[2] < q[1] * m2

\* C2: when every row median is non-zero, down[c] lists exactly the genes with
\* value(g,c)/median(g) < down_cutoff and up[c] exactly those with
\* value(g,c)/median(g) > up_cutoff, in the table's row order; a gene with
\* constant values is in neither list when down_cutoff <= 1 <= up_cutoff.
C2_UpDownByRatio ==
    (Called("find_up_down_genes_from_sig") /\ MediansNonZero(heap[1])) =>
        LET df == heap[1]
            a == call.args
            m2(i) == TwiceMedian(df.data[i])
        IN /\ DOMAIN ret.value.up = Range(df.columns)
           /\ DOMAIN ret.value.down = Range(df.columns)
           /\ \A j \in 1..NCols(df) :
                 /\ ret.value.down[df.columns[j]] =
                       LabelsAt(df, {i \in 1..NRows(df) :
                                       RatioBelow(df.data[i][j][1], m2(i), a.down_cutoff)})
                 /\ ret.value.up[df.columns[j]] =
                       LabelsAt(df, {i \in 1..NRows(df) :
                                       RatioAbove(df.data[i][j][1], m2(i), a.up_cutoff)})
           /\ \A i \in 1..NRows(df) :
                 ( /\ \A j \in 1..NCols(df) : df.data[i][j] = df.data[i][1]
                   /\ a.down_cutoff[1] <= a.down_cutoff[2]
                   /\ a.up_cutoff[2] <= a.up_cutoff[1] ) =>
                 \A c \in Range(df.columns) :
                    /\ df.index[i] \notin Range(ret.value.up[c])
                    /\ df.index[i] \notin Range(ret.value.down[c])

\* a three-category table in reverse gene order: gene 2 (values 2,1,1, median
\* 1) is up for c1 only, gene 1 (values 0,1,2) is down for c1 and up for c3
C2_Witness ==
    /\ Called("find_up_down_genes_from_sig")
    /\ call.args.down_cutoff = <<2, 5>>
    /\ call.args.up_cutoff = <<1, 1>>
    /\ heap[1].index = <<2, 1>>
    /\ heap[1].data = <<<<FInt(2), FInt(1), FInt(1)>>, <<FInt(0), FInt(1), FInt(2)>>>>
    /\ ret.value.up = [c \in {"c1", "c2", "c3"} |->
                   IF c = "c1" THEN <<2>> ELSE IF c = "c3" THEN <<1>> ELSE <<>>]
    /\ ret.value.down = [c \in {"c1", "c2", "c3"} |-> IF c = "c1" THEN <<1>> ELSE <<>>]

(* ------------------------------- C9 ------------------------------------ *)

\* C9: a gene whose median is zero is not guarded and the call returns
\* normally: where its value is positive it is listed as up-regulated (for
\* every finite up_cutoff) and not as down-regulated; where its value is zero
\* it is in neither list.
C9_ZeroMedianUnguarded ==
    Called("find_up_down_genes_from_sig") =>
        LET df == heap[1]
        IN /\ ret.kind = "ok"
           /\ DOMAIN ret.value = {"up", "down"}
           /\ \A i \in 1..NRows(df) : TwiceMedian(df.data[i]) = 0 =>
                 \A j \in 1..NCols(df) :
                    LET c == df.columns[j]
                        g == df.index[i]
                    IN /\ df.data[i][j][1] > 0 =>
                            (g \in Range(ret.value.up[c]) /\ g \notin Range(ret.value.down[c]))
                       /\ df.data[i][j][1] = 0 =>
                            (g \notin Range(ret.value.up[c]) /\ g \notin Range(ret.value.down[c]))

\* gene 1 has values 0,0,2 (median 0): up for c3 even with the largest cutoff,
\* in no list for c1 and c2
C9_Witness ==
    /\ Called("find_up_down_genes_from_sig")
    /\ call.args.up_cutoff = <<4, 1>>
    /\ heap[1].index = <<1>>
    /\ heap[1].data = <<<<FInt(0), FInt(0), FInt(2)>>>>
    /\ ret.value.up["c3"] = <<1>>
    /\ ret.value.up["c1"] = <<>>
    /\ ret.value.down["c1"] = <<>>
    /\ ret.value.down["c3"] = <<>>

(* ------------------------------- C4 ------------------------------------ *)

RowOf(df, g) == CHOOSE i \in 1..NRows(df) : df.index[i] = g
ValueOf(df, g, c) == df.data[RowOf(df, g)][ColPos(df, c)][1]
Min(a, b) == IF a < b THEN a ELSE b

\* C4: for a signature table of n genes and a size >= 0, every category gets
\* min(size, n) distinct genes, ordered by non-increasing value, and no
\* omitted gene has a strictly larger value than a listed one; size 2 on
\* {g1: 1, g2: 2, g3: 0} gives [g2, g1].
C4_TopRanked ==
    Called("get_top_ranked_genes_from_sig") =>
        LET df == heap[1]
            size == call.args.sig_size
        IN /\ DOMAIN ret.value = Range(df.columns)
           /\ \A c \in Range(df.columns) :
                 LET top == ret.value[c]
                 IN /\ Len(top) = Min(size, NRows(df))
                    /\ NoDuplicates(top)
                    /\ Range(top) \subseteq Range(df.index)
                    /\ \A i \in 1..(Len(top) - 1) :
                          ValueOf(df, top[i], c) >= ValueOf(df, top[i + 1], c)
                    /\ \A g \in Range(df.index) \ Range(top) : \A i \in 1..Len(top) :
                          ValueOf(df, g, c) <= ValueOf(df, top[i], c)
           /\ ( /\ size = 2
                /\ df.index = <<1, 2, 3>>
                /\ df.data = <<<<FInt(1)>>, <<FInt(2)>>, <<FInt(0)>>>> ) =>
                 ret.value["c1"] = <<2, 1>>

\* the three-gene, one-category example with size 2
C4_Witness ==
    /\ Called("get_top_ranked_genes_from_sig")
    /\ call.args.sig_size = 2
    /\ heap[1].index = <<1, 2, 3>>
    /\ heap[1].data = <<<<FInt(1)>>, <<FInt(2)>>, <<FInt(0)>>>>
    /\ ret.value["c1"] = <<2, 1>>

(* ------------------------------- C3 ------------------------------------ *)

\* the rows of df at the positions in S, in row order
RowsAt(df, S) ==
    LET RECURSIVE go(_)
        go(i) == IF i > NRows(df) THEN <<>>
                 ELSE (IF i \in S THEN <<df.data[i]>> ELSE <<>>) \o go(i + 1)
    IN DataFrame(LabelsAt(df, S), df.columns, go(1))

\* population variance of a row of whole numbers > t[1] / t[2], without
\* division: n * sum(v^2) - sum(v)^2 against t * n^2
VarianceAbove(row, t) ==
    LET n == Len(row)
        s == SumSeq([j \in 1..n |-> row[j][1]])
        q == SumSeq([j \in 1..n |-> row[j][1] * row[j][1]])
    IN (n * q - s * s) * t[2] > t[1] * n * n

HighVariance(df, t) == {i \in 1..NRows(df) : VarianceAbove(df.data[i], t)}

GroupOf(df, axis, i, j) ==
    IF axis = 0 THEN {df.data[k][j][1] : k \in 1..NRows(df)}
    ELSE {df.data[i][k][1] : k \in 1..NCols(df)}

MinOfSet(S) == CHOOSE x \in S : \A y \in S : x <= y
MaxOfSet(S) == CHOOSE x \in S : \A y \in S : x >= y

InUnitInterval(x) == IsFinite(x) /\ 0 <= x[1] /\ x[1] <= x[2]

\* C6 as stated: with minmax every value lies in [0,1], every position of a
\* column's (row's) minimum maps to 0 and every position of its maximum maps
\* to 1, also when all its values are equal.
C6_AsStated ==
    (Called("df_normalization") /\ call.args.scaling = "minmax") =>
        /\ ret.kind = "ok"
        /\ \A i \in 1..NRows(heap[1]) : \A j \in 1..NCols(heap[1]) :
              LET g == GroupOf(heap[1], call.args.axis, i, j)
                  v == heap[1].data[i][j][1]
                  x == ret.value.data[i][j]
              IN /\ InUnitInterval(x)
                 /\ v = MinOfSet(g) => FEq(x, FInt(0))
                 /\ v = MaxOfSet(g) => FEq(x, FInt(1))

\* C6 (amended): with minmax the result keeps the row and column labels,
\* every value lies in [0,1] and equals (v - min) / (max - min) of its column
\* (axis 0) or row (axis 1), so the minimum maps to 0 and the maximum to 1,
\* provided the column (row) is not constant; a constant column (row) maps
\* to 0 everywhere, its maximum included.
C6_MinMax ==
    (Called("df_normalization") /\ call.args.scaling = "minmax") =>
        /\ ret.kind = "ok"
        /\ ret.value.index = heap[1].index
        /\ ret.value.columns = heap[1].columns
        /\ \A i \in 1..NRows(heap[1]) : \A j \in 1..NCols(heap[1]) :
              LET g == GroupOf(heap[1], call.args.axis, i, j)
                  lo == MinOfSet(g)
                  hi == MaxOfSet(g)
                  v == heap[1].data[i][j][1]
                  x == ret.value.data[i][j]
              IN /\ InUnitInterval(x)
                 /\ v = lo => FEq(x, FInt(0))
                 /\ IF lo = hi THEN FEq(x, FInt(0))
                    ELSE /\ FEq(x, <<v - lo, hi - lo>>)
                         /\ v = hi => FEq(x, FInt(1))

\* per-row normalisation of a 2 x 3 table with a constant row
C6_Witness ==
    /\ Called("df_normalization")
    /\ call.args.scaling = "minmax"
    /\ call.args.axis = 1
    /\ heap[1].data = <<<<FInt(1), FInt(1), FInt(1)>>, <<FInt(0), FInt(2), FInt(1)>>>>
    /\ \A j \in 1..3 : FEq(ret.value.data[1][j], FInt(0))
    /\ FEq(ret.value.data[2][1], FInt(0))
    /\ FEq(ret.value.data[2][2], FInt(1))
    /\ FEq(ret.value.data[2][3], <<1, 2>>)

(* ------------------------------- C5 ------------------------------------ *)

InvalidIdentifier ==
    Called("read_pancancer_rna_file") /\ call.args.identifier \notin {"hugo", "entrez"}

\* C5 as stated: with an unsupported identifier the call fails with the
\* invalid-argument error whatever the file is, and no file access precedes
\* the identifier check.
C5_AsStated ==
    InvalidIdentifier => (ret = Raise("ValueError") /\ log = <<>>)

\* C5 (amended): with an unsupported identifier the call never returns a
\* table, but the identifier is checked only after the file has been read
\* and its identifier columns converted: the call reads the file first, and
\* raises the invalid-argument error exactly when the file exists, parses and
\* holds both identifier columns; otherwise the reader's own error (file not
\* found, empty file, missing column) is raised instead.
C5_InvalidIdentifierAfterRead ==
    InvalidIdentifier =>
        /\ ret.kind = "error"
        /\ log = <<"read_csv">>
        /\ ret = Raise("ValueError") <=>
              (fs.kind = "table" /\ IdColumns \subseteq Range(fs.header))
        /\ fs.kind = "missing" => ret = Raise("FileNotFoundError")
        /\ fs.kind = "empty" => ret = Raise("EmptyDataError")

\* a well-formed one-gene file read in full before the identifier is rejected
C5_Witness ==
    /\ InvalidIdentifier
    /\ fs.kind = "table"
    /\ fs.header = <<"Hugo_Symbol", "Entrez_Gene_Id", "s1">>
    /\ Len(fs.rows) = 1
    /\ log = <<"read_csv">>
    /\ ret = Raise("ValueError")

(* ------------------------------- C7 ------------------------------------ *)

\* C7: for n samples and k categories the call returns a long table of n * k
\* rows in which row j*n + i (counting from 0) holds the method's estimate and
\* the ground truth of sample i for category j, and the label of category j.
C7_LongTable ==
    Called("predicted_truth_bycell") =>
        LET n == NRows(heap[1])
            cell_types == call.args.cell_types
        IN /\ ret.kind = "ok"
           /\ NRows(ret.value) = n * Len(cell_types)
           /\ \A j \in 1..Len(cell_types) : \A i \in 1..n :
                 ret.value.data[(j - 1) * n + i] =
                    <<Column(heap[2], cell_types[j])[i],
                      Column(heap[1], cell_types[j])[i],
                      cell_types[j]>>

(* ------------------------------- C10 ----------------------------------- *)

\* C10: with a non-empty category list, every sample's entry of the
\* per-sample Pearson (Spearman) table equals, for every method, that
\* method's per-category Pearson (Spearman) value for the last category of
\* the list.
C10_PerSampleIsLastCategory ==
    (Called("corr_table") /\ call.args.cell_types # <<>>) =>
        /\ ret.kind = "ok"
        /\ LET last == Len(call.args.cell_types)
           IN \A j \in 1..Len(call.args.methods) :
                 /\ NRows(ret.value[2]) = NRows(heap[1])
                 /\ NRows(ret.value[4]) = NRows(heap[1])
                 /\ \A i \in 1..NRows(heap[1]) :
                       /\ ret.value[2].data[i][j] = ret.value[1].data[last][j]
                       /\ ret.value[4].data[i][j] = ret.value[3].data[last][j]

\* method m1 correlates perfectly with the truth for c1 and with r^2 = 1/4
\* for c2, the last category: all three samples get the c2 value
C10_Witness ==
    /\ Called("corr_table")
    /\ call.args.cell_types = <<"c1", "c2">>
    /\ ret.kind = "ok"
    /\ ret.value[1].data[1][1] = [sgn |-> 1, sq |-> <<1, 1>>]
    /\ ret.value[1].data[2][1] = [sgn |-> 1, sq |-> <<1, 4>>]
    /\ \A i \in 1..3 : ret.value[2].data[i][1] = [sgn |-> 1, sq |-> <<1, 4>>]
    /\ \A i \in 1..3 : ret.value[4].data[i][1] = ret.value[3].data[2][1]

(* ------------------------------- C8 ------------------------------------ *)

\* C8: no transform changes the tables it is given: across every call of
\* df_normalization, keep_common_genes, find_up_down_genes_from_sig,
\* get_top_ranked_genes_from_sig and variance_threshold_selector the caller's
\* tables keep their row labels, column labels and cells, so every call of a
\* sequence sees the same tables.
C8_InputsUnchanged == [][heap' = heap]_vars

\* after the up/down derivation the caller's signature table still has its
\* two columns (no 'reference' column) although a result was returned
C8_Witness ==
    /\ Called("find_up_down_genes_from_sig")
    /\ ret.kind = "ok"
    /\ heap[1].columns = <<"c1", "c2">>
    /\ heap[1].data = <<<<FInt(0), FInt(2)>>, <<FInt(1), FInt(1)>>>>
    /\ ret.value.down["c1"] = <<heap[1].index[1]>>

====
